---- MODULE Spec2Model ----
(***************************************************************************)
(* ConditionalAggregateWebpackPlugin: a watch wrapper that accumulates the *)
(* changed / removed files of raw watcher notifications and calls the      *)
(* downstream handler only once the user's condition accepts them,         *)
(* re-checking every recheckInterval ms and printing the reason of a       *)
(* rejection at most once per FALSE_CONDITION_PRINT_INTERVAL ms.           *)
(*                                                                         *)
(* Time is in milliseconds.  A handler (raw notification, timer firing,    *)
(* watchRun step) runs to completion on the single JavaScript thread, so   *)
(* each is one atomic action that reads Date.now() once.                   *)
(***************************************************************************)
EXTENDS Integers, Sequences, FiniteSets

VARIABLES
    clock,          \* Date.now()
    ticks,          \* number of clock advances so far (bounds the run)
    recheckInterval,\* apply(): options.recheckInterval || DEFAULT_RECHECK_INTERVAL
    cond,           \* which options.condition the plugin was configured with
    \* ---- one call of ConditionalAggregateFileSystem.watch -------------
    heap,           \* the Set objects: reference -> contents
    changes,        \* let changes  (a reference into heap)
    removals,       \* let removals (a reference into heap)
    timeout,        \* let timeout  (the handle of the last setTimeout)
    timers,         \* the timers pending in the JavaScript runtime
    printer,        \* const printer = new FalseConditionPrinter(logger)
    notifs,         \* raw notifications received so far
    \* ---- what the collaborators of the watch observe ------------------
    cb,             \* arguments of the last call of the downstream callback
    cbCount,        \* number of calls of the downstream callback
    held,           \* the last snapshot the consumer received and retains
    notified,       \* ids reported by the non-error notifications of the cycle
    ev,             \* the last handled event, its gate decision and the
                    \* number of calls of the callback it made
    \* ---- ConditionalAggregateWebpackPlugin.apply ----------------------
    firstRun,       \* let firstRun
    applyPrinter,   \* const printer of apply()
    runs,           \* the invocations of the watchRun hook, in order
    \* ---- a FalseConditionPrinter driven directly --------------------
    mode,           \* how the driver spaces its calls
    call,           \* the last call the driver made on printer
    \* ---- a second call of ConditionalAggregateFileSystem.watch --------
    self,           \* the registration whose closure the variables of the
                    \* watch above hold: 1 or 2
    other           \* the closure of the other registration

vars == <<clock, ticks, recheckInterval, cond, heap, changes, removals,
          timeout, timers, printer, notifs, cb, cbCount, held, notified, ev,
          firstRun, applyPrinter, runs, mode, call, self, other>>

watchVars == <<heap, changes, removals, timeout, timers, printer, notifs, cb,
               cbCount, held, notified, ev>>

applyVars == <<firstRun, applyPrinter, runs>>

driverVars == <<mode, call>>

regVars == <<self, other>>

-----------------------------------------------------------------------------
(* Program constants *)

DEFAULT_RECHECK_INTERVAL == 200

FALSE_CONDITION_PRINT_INTERVAL == 10000

\* undefined, for the optional numbers (printedAt, the timer's due time)
Undefined == -1

-----------------------------------------------------------------------------
(* Bounds of the model *)

\* Date.now() when the plugin is applied
StartClock == 1

\* clock advances in one run of a watch
MaxTicks == 1

\* clock advances in one run of the watchRun hook or of a printer alone
MaxWaits == 3

\* raw notifications in one run
MaxNotifs == 2

\* invocations of the watchRun hook in one run
MaxRuns == 3

\* Set objects that can be alive at once: the two accumulated sets, the two
\* of the snapshot the consumer retains, and the two being allocated
NumRefs == 6

\* length of the 1 ms rejection stream, in ms
StreamLength == 25000

-----------------------------------------------------------------------------
(* Inputs *)

\* file paths
Ids == {"a", "b"}

NoErr == "null"

\* err of a raw notification
Errs == {NoErr, "EIO", "ENOSPC"}

\* options.recheckInterval; 0 stands for an absent (or zero) option
RecheckOptions == {0, 100}

\* options.condition: "external" decides on state outside the plugin (any
\* result at any call), "atLeast2" is (changes) => changes.size >= 2 || [...]
Conditions == {"external", "atLeast2"}

\* the string[] results of a rejecting condition
Whys == {<< >>, <<"git", "rebase">>}

Accepted == [ok |-> TRUE, why |-> << >>]

Rejected(why) == [ok |-> FALSE, why |-> why]

\* the results options.condition(changes, removals) can return
Condition(c, chg, rem) ==
    IF c = "atLeast2"
    THEN IF Cardinality(chg) >= 2
         THEN {Accepted}
         ELSE {Rejected(<<"git", "rebase">>)}
    ELSE IF c = "closed" THEN {Rejected(w) : w \in Whys}
    ELSE IF c = "open" THEN {Accepted}
    ELSE {Accepted} \cup {Rejected(w) : w \in Whys}

RecheckIntervalOf(opt) == IF opt = 0 THEN DEFAULT_RECHECK_INTERVAL ELSE opt

-----------------------------------------------------------------------------
(* FalseConditionPrinter *)

\* why.join(" ")
RECURSIVE Join(_)
Join(why) ==
    IF Len(why) = 0 THEN ""
    ELSE IF Len(why) = 1 THEN why[1]
    ELSE why[1] \o " " \o Join(Tail(why))

\* new FalseConditionPrinter(logger); emitted lists its logger.info calls
NewPrinter == [printedAt |-> Undefined, emitted |-> << >>]

\* !this.printedAt
NotPrintedAt(p) == p.printedAt = Undefined \/ p.printedAt = 0

\* Date.now() - this.printedAt > FALSE_CONDITION_PRINT_INTERVAL
IntervalPassed(printedAt, now) == now - printedAt > FALSE_CONDITION_PRINT_INTERVAL

\* PrintNow that leaves printedAt alone: the window never restarts
PrintNowKeepingWindow(p, why, now) ==
    [printedAt |-> p.printedAt,
     emitted   |-> IF Len(why) > 0
                   THEN Append(p.emitted, [at |-> now, msg |-> Join(why)])
                   ELSE p.emitted]

\* PrintNow without the test of why.length
PrintNowAlways(p, why, now) ==
    [printedAt |-> now,
     emitted   |-> Append(p.emitted, [at |-> now, msg |-> Join(why)])]

\* the body of the if: this.printedAt = Date.now(); logger.info(...)
PrintNow(p, why, now) ==
    [printedAt |-> now,
     emitted   |-> IF Len(why) > 0
                   THEN Append(p.emitted, [at |-> now, msg |-> Join(why)])
                   ELSE p.emitted]

OnFalse(p, why, now) ==
    LET p1 == IF NotPrintedAt(p) THEN [p EXCEPT !.printedAt = now] ELSE p
    IN  IF IntervalPassed(p1.printedAt, now) THEN PrintNow(p1, why, now) ELSE p1

\* Reset that forgets to clear printedAt
ResetKeeping(p) == p

Reset(p) == [p EXCEPT !.printedAt = Undefined]

-----------------------------------------------------------------------------
(* The Set objects *)

Refs == 1 .. NumRefs

NoRef == 0

\* a reference no live object uses (the smallest, to keep states canonical)
NewRef(live) == CHOOSE r \in Refs \ live : \A q \in Refs \ live : r <= q

\* NewSet as old.clear(): the Set handed to the consumer is emptied and reused
ClearInPlace(h, old, live) == [ref |-> old, heap |-> [h EXCEPT ![old] = {}]]

\* NewSet that allocates nothing: the watch goes on with the Set it handed over
KeepSet(h, old, live) == [ref |-> old, heap |-> h]

\* x = new Set(), where x referred to old
NewSet(h, old, live) ==
    LET r == NewRef(live) IN [ref |-> r, heap |-> [h EXCEPT ![r] = {}]]

\* AddAll that overwrites: acc holds the files of the last notification only
AddAllReplacing(h, acc, files) == [h EXCEPT ![acc] = files]

\* files.forEach((file) => acc.add(file))
AddAll(h, acc, files) == [h EXCEPT ![acc] = @ \cup files]

\* objects nothing refers to any more are collected
Collect(h, live) == [r \in Refs |-> IF r \in live THEN h[r] ELSE {}]

-----------------------------------------------------------------------------
(* Initial state: the plugin applied, one watch registered, nothing seen *)

NoTimer == [due |-> Undefined, err |-> NoErr, ts |-> 0, reg |-> 0]

NoCall == [kind |-> "none", err |-> NoErr, ts |-> 0,
           changes |-> {}, removals |-> {}]

NoCallYet == [op |-> "none", why |-> << >>, first |-> FALSE,
              before |-> Undefined, at |-> Undefined, logged |-> 0]

\* the locals of a call of watch() that has seen nothing yet, and what its
\* collaborators have observed of it
NewWatch ==
    [heap |-> [r \in Refs |-> {}], changes |-> 1, removals |-> 2,
     timeout |-> NoTimer, printer |-> NewPrinter, notifs |-> 0,
     cb |-> NoCall, cbCount |-> 0,
     held |-> [changes |-> NoRef, removals |-> NoRef,
               wasChanges |-> {}, wasRemovals |-> {}],
     notified |-> [changed |-> {}, removed |-> {}, closed |-> TRUE,
                   last |-> 0],
     ev |-> [op |-> "none", err |-> NoErr, res |-> "none", calls |-> 0,
             at |-> Undefined]]

\* start is what Date.now() returns when the plugin is applied
InitAt(start, options, conditions, modes) ==
    /\ clock = start
    /\ ticks = 0
    /\ recheckInterval \in {RecheckIntervalOf(o) : o \in options}
    /\ cond \in conditions
    /\ heap = NewWatch.heap
    /\ changes = NewWatch.changes
    /\ removals = NewWatch.removals
    /\ timeout = NewWatch.timeout
    /\ timers = {}
    /\ printer = NewWatch.printer
    /\ notifs = NewWatch.notifs
    /\ cb = NewWatch.cb
    /\ cbCount = NewWatch.cbCount
    /\ held = NewWatch.held
    /\ notified = NewWatch.notified
    /\ ev = NewWatch.ev
    /\ firstRun = TRUE
    /\ applyPrinter = NewPrinter
    /\ runs = << >>
    /\ mode \in modes
    /\ call = NoCallYet
    /\ self = 1
    /\ other = NewWatch

InitWith(options, conditions, modes) ==
    InitAt(StartClock, options, conditions, modes)

-----------------------------------------------------------------------------
(* ConditionalAggregateFileSystem.watch: the handler given to wfs.watch *)

\* ClearTimeout without clearTimeout(timeout): the old timer stays pending
LeakTimeout(pending, t) == pending

\* if (timeout) { clearTimeout(timeout); timeout = undefined; }: the timers
\* still pending in the runtime, of those in pending
ClearTimeout(pending, t) == pending \ {t}

\* SetTimeout that re-arms the runCallback of the timer it replaces: the
\* closure of an earlier notification, with its timestamps
SetTimeoutStale(err, ts, now) ==
    [due |-> now + recheckInterval, err |-> err,
     ts |-> IF timeout = NoTimer THEN ts ELSE timeout.ts, reg |-> self]

\* setTimeout(runCallback, this.recheckInterval): the timer, the err and
\* timestamps its runCallback closes over, and the registration (reg) whose
\* closure that runCallback belongs to
SetTimeout(err, ts, now) ==
    [due |-> now + recheckInterval, err |-> err, ts |-> ts, reg |-> self]

\* the arguments of a call of the downstream callback, as the consumer sees
\* them: callback(err) passes err alone (kind "error"); the five-argument
\* call (kind "data") passes the timestamps and two Sets, whose contents at
\* the call are changes and removals
ErrorArgs(err) ==
    [kind |-> "error", err |-> err, ts |-> 0, changes |-> {}, removals |-> {}]

DataArgs(err, ts, h, c, r) ==
    [kind |-> "data", err |-> err, ts |-> ts, changes |-> h[c], removals |-> h[r]]

\* the snapshot a consumer retains: the two Sets of a data call (a consumer
\* may as well let go of the new one and keep the one it retained before)
Retained(h, c, r) ==
    {held, [changes |-> c, removals |-> r,
            wasChanges |-> h[c], wasRemovals |-> h[r]]}

\* what the handling of one event (op "notify" or "fire") did: res is the
\* result of this.condition ("none": not called), calls the number of calls
\* of the callback, at the time of the latest call of this.condition so far
Handled(op, err, res) ==
    [op |-> op, err |-> err, res |-> res, calls |-> cbCount' - cbCount,
     at |-> IF res = "none" THEN ev.at ELSE clock]

\* RunError that passes the accumulated Sets along with the error
RunErrorWithData(op, h, cleared, err) ==
    /\ timers' = cleared
    /\ timeout' = NoTimer
    /\ printer' = Reset(printer)
    /\ cb' = DataArgs(err, 0, h, changes, removals)
    /\ cbCount' = cbCount + 1
    /\ heap' = h
    /\ UNCHANGED <<changes, removals, held>>
    /\ ev' = Handled(op, err, "none")

\* RunError that starts a new cycle: the accumulated Sets are replaced
RunErrorClearing(op, h, cleared, err) ==
    LET live == {changes, removals, held.changes, held.removals}
        c == NewSet(h, changes, live)
        r == NewSet(c.heap, removals, live \cup {c.ref})
    IN  /\ timers' = cleared
        /\ timeout' = NoTimer
        /\ printer' = Reset(printer)
        /\ cb' = ErrorArgs(err)
        /\ cbCount' = cbCount + 1
        /\ changes' = c.ref
        /\ removals' = r.ref
        /\ heap' = Collect(r.heap, {c.ref, r.ref, held.changes, held.removals})
        /\ UNCHANGED held
        /\ ev' = Handled(op, err, "none")

\* if (err) { printer.reset(); callback(err); return; }
RunError(op, h, cleared, err) ==
    /\ timers' = cleared
    /\ timeout' = NoTimer
    /\ printer' = Reset(printer)
    /\ cb' = ErrorArgs(err)
    /\ cbCount' = cbCount + 1
    /\ heap' = h
    /\ UNCHANGED <<changes, removals, held>>
    /\ ev' = Handled(op, err, "none")

\* if (res === true) { ... callback(err, fileTimestamps, dirTimestamps,
\* copyChanges, copyRemovals); }
RunAccepted(op, h, cleared, err, ts) ==
    LET copyChanges == changes
        copyRemovals == removals
        live == {changes, removals, held.changes, held.removals}
        c == NewSet(h, changes, live)
        r == NewSet(c.heap, removals, live \cup {c.ref})
    IN  /\ timers' = cleared
        /\ timeout' = NoTimer
        /\ changes' = c.ref
        /\ removals' = r.ref
        /\ printer' = Reset(printer)
        /\ cb' = DataArgs(err, ts, r.heap, copyChanges, copyRemovals)
        /\ cbCount' = cbCount + 1
        /\ held' \in Retained(r.heap, copyChanges, copyRemovals)
        /\ heap' = Collect(r.heap, {c.ref, r.ref, held'.changes, held'.removals})
        /\ ev' = Handled(op, err, "accepted")

\* RunRejected that calls the callback before it looks at res
RunRejectedCalling(op, h, cleared, err, ts, why) ==
    /\ printer' = OnFalse(printer, why, clock)
    /\ timeout' = SetTimeout(err, ts, clock)
    /\ timers' = cleared \cup {timeout'}
    /\ heap' = h
    /\ cb' = DataArgs(err, ts, h, changes, removals)
    /\ cbCount' = cbCount + 1
    /\ UNCHANGED <<changes, removals, held>>
    /\ ev' = Handled(op, err, "rejected")

\* RunRejected without the setTimeout: nothing evaluates the condition again
RunRejectedNoRetry(op, h, cleared, err, ts, why) ==
    /\ printer' = OnFalse(printer, why, clock)
    /\ timeout' = NoTimer
    /\ timers' = cleared
    /\ heap' = h
    /\ UNCHANGED <<changes, removals, cb, cbCount, held>>
    /\ ev' = Handled(op, err, "rejected")

\* else { printer.onFalse(res); timeout = setTimeout(runCallback, ...); }
RunRejected(op, h, cleared, err, ts, why) ==
    /\ printer' = OnFalse(printer, why, clock)
    /\ timeout' = SetTimeout(err, ts, clock)
    /\ timers' = cleared \cup {timeout'}
    /\ heap' = h
    /\ UNCHANGED <<changes, removals, cb, cbCount, held>>
    /\ ev' = Handled(op, err, "rejected")

\* RunCallback that tests err before it clears the timeout: an error leaves
\* the timer pending
RunCallbackErrFirst(op, h, pending, err, ts) ==
    LET cleared == ClearTimeout(pending, timeout)
    IN  IF err # NoErr
        THEN RunError(op, h, pending, err)
        ELSE \E res \in Condition(cond, h[changes], h[removals]) :
               IF res.ok
               THEN RunAccepted(op, h, cleared, err, ts)
               ELSE RunRejected(op, h, cleared, err, ts, res.why)

\* runCallback, entered by event op with the Sets as in h and the timers in
\* pending, in the closure of the notification (err, ts).  ev.res records the
\* result of this.condition, "none" when runCallback did not call it.
RunCallback(op, h, pending, err, ts) ==
    LET cleared == ClearTimeout(pending, timeout)
    IN  IF err # NoErr
        THEN RunError(op, h, cleared, err)
        ELSE \E res \in Condition(cond, h[changes], h[removals]) :
               IF res.ok
               THEN RunAccepted(op, h, cleared, err, ts)
               ELSE RunRejected(op, h, cleared, err, ts, res.why)

\* the ids the non-error notifications of the current cycle reported; a cycle
\* ends with an acceptance and the next one starts with the next notification;
\* last is the latest notification without error
NotifiedAfter(err, changedFiles, removedFiles, accepted) ==
    IF err # NoErr THEN notified
    ELSE [changed |-> (IF notified.closed THEN {} ELSE notified.changed)
                          \cup changedFiles,
          removed |-> (IF notified.closed THEN {} ELSE notified.removed)
                          \cup removedFiles,
          closed  |-> accepted,
          last    |-> notifs + 1]

\* Merged without the test of err: the ids of a notification with an error
\* are accumulated too
MergedAlways(err, changedFiles, removedFiles) ==
    AddAll(AddAll(heap, changes, changedFiles), removals, removedFiles)

\* if (!err) { changedFiles.forEach(...); removedFiles.forEach(...); }: the
\* Sets after the handler merged the ids of the notification
Merged(err, changedFiles, removedFiles) ==
    IF err = NoErr
    THEN AddAll(AddAll(heap, changes, changedFiles), removals, removedFiles)
    ELSE heap

\* the raw watcher calls the handler: (err, fileTimestamps, dirTimestamps,
\* changedFiles, removedFiles); the timestamps are those of notification n
Notify(err, changedFiles, removedFiles) ==
    /\ notifs < MaxNotifs
    /\ notifs' = notifs + 1
    /\ RunCallback("notify", Merged(err, changedFiles, removedFiles), timers,
                   err, notifs + 1)
    /\ notified' = NotifiedAfter(err, changedFiles, removedFiles,
                                 ev'.res = "accepted")
    /\ UNCHANGED <<clock, ticks, recheckInterval, regVars, cond, applyVars, driverVars>>

\* a pending timer t is due: the runtime drops it and calls the runCallback
\* of the notification that set it
Fire(t) ==
    /\ t \in timers
    /\ t.reg = self
    /\ clock >= t.due
    /\ RunCallback("fire", heap, timers \ {t}, t.err, t.ts)
    /\ notified' = [notified EXCEPT !.closed = (ev'.res = "accepted")]
    /\ UNCHANGED <<clock, ticks, recheckInterval, regVars, cond, notifs, applyVars,
                   driverVars>>

-----------------------------------------------------------------------------
(* Time *)

Tick(steps, max) ==
    /\ ticks < max
    /\ ticks' = ticks + 1
    /\ \E d \in steps : clock' = clock + d
    /\ UNCHANGED <<recheckInterval, regVars, cond, watchVars, applyVars, driverVars>>

\* the removedFiles tried with a notification: any for a notification without
\* error; the handler never reads those of one with an error, which come
\* as a copy of its changedFiles
RemovedWith(err, changedFiles) ==
    IF err = NoErr THEN SUBSET Ids ELSE {changedFiles}

WatchSteps == {recheckInterval, FALSE_CONDITION_PRINT_INTERVAL + 1}

NextWatch ==
    \/ \E err \in Errs, changedFiles \in SUBSET Ids :
         \E removedFiles \in RemovedWith(err, changedFiles) :
           Notify(err, changedFiles, removedFiles)
    \/ \E t \in timers : Fire(t)
    \/ Tick(WatchSteps, MaxTicks)

InitWatch == InitWith({0}, Conditions, {"calls"})

SpecWatch == InitWatch /\ [][NextWatch]_vars

-----------------------------------------------------------------------------
(* One watch registration whose condition rejects until the outside world is
   ready and accepts from then on; the raw watcher reports no error *)

\* the outside world becomes ready (say, the git rebase ends): the condition
\* accepts from now on
Open ==
    /\ cond = "closed"
    /\ cond' = "open"
    /\ UNCHANGED <<clock, ticks, recheckInterval, regVars, watchVars, applyVars,
                   driverVars>>

\* a notification without error; what it reports as removed does not matter
\* to the polling, and is left empty
NotifyPoll ==
    \E changedFiles \in SUBSET Ids : Notify(NoErr, changedFiles, {})

FirePoll == \E t \in timers : Fire(t)

\* time passes, one recheckInterval at a time: MaxWaits times while the
\* condition rejects, and once more after it started to accept
TickPoll ==
    Tick({recheckInterval}, IF cond = "open" THEN MaxWaits + 1 ELSE MaxWaits)

NextPoll ==
    \/ NotifyPoll
    \/ FirePoll
    \/ TickPoll
    \/ Open

InitPoll == InitWith({0}, {"closed"}, {"calls"})

\* time passes, and the runtime runs the callback of a timer that is due
SpecPoll ==
    InitPoll /\ [][NextPoll]_vars /\ WF_vars(TickPoll) /\ WF_vars(FirePoll)

-----------------------------------------------------------------------------
(* Two calls of ConditionalAggregateFileSystem.watch on one file system: two
   registrations, each with the closure its call of watch() created.  The
   clock, the condition, recheckInterval and the timers of the runtime are
   common to both. *)

Regs == {1, 2}

\* what a call of watch() creates for itself (let changes, let removals, let
\* timeout, const printer) with the Sets the two variables refer to, and
\* what the collaborators of that registration have observed
Locals ==
    [heap |-> heap, changes |-> changes, removals |-> removals,
     timeout |-> timeout, printer |-> printer, notifs |-> notifs,
     cb |-> cb, cbCount |-> cbCount, held |-> held, notified |-> notified,
     ev |-> ev]

\* Enter with a printer that is one object for all registrations, as if it
\* were created in the constructor of the file system
EnterSharingPrinter(l) ==
    /\ heap' = l.heap
    /\ changes' = l.changes
    /\ removals' = l.removals
    /\ timeout' = l.timeout
    /\ printer' = printer
    /\ notifs' = l.notifs
    /\ cb' = l.cb
    /\ cbCount' = l.cbCount
    /\ held' = l.held
    /\ notified' = l.notified
    /\ ev' = l.ev

\* the handlers that run next are those of the registration with the
\* closure l: its locals are the ones they read and write
Enter(l) ==
    /\ heap' = l.heap
    /\ changes' = l.changes
    /\ removals' = l.removals
    /\ timeout' = l.timeout
    /\ printer' = l.printer
    /\ notifs' = l.notifs
    /\ cb' = l.cb
    /\ cbCount' = l.cbCount
    /\ held' = l.held
    /\ notified' = l.notified
    /\ ev' = l.ev

\* the next event belongs to the other registration
Switch ==
    /\ self' = 3 - self
    /\ other' = Locals
    /\ Enter(other)
    /\ UNCHANGED <<clock, ticks, recheckInterval, cond, timers, applyVars,
                   driverVars>>

\* what registration r has accumulated, its timeout handle, its timers
\* pending in the runtime and its printer
View(r) ==
    LET l == IF r = self THEN Locals ELSE other
    IN  [changes |-> l.heap[l.changes], removals |-> l.heap[l.removals],
         timeout |-> l.timeout, pending |-> {t \in timers : t.reg = r},
         printer |-> l.printer]

\* the notifications tried with two registrations, MaxNotifs in all: with or
\* without error, one id changed, none removed
NotifyTwo ==
    /\ notifs + other.notifs < MaxNotifs
    /\ \E err \in {NoErr, "EIO"}, changedFiles \in {{"a"}} :
         Notify(err, changedFiles, {})

FireTwo == \E t \in timers : Fire(t)

TickTwo == Tick(WatchSteps, MaxTicks)

NextTwo ==
    \/ NotifyTwo
    \/ FireTwo
    \/ TickTwo
    \/ Switch

InitTwo == InitWith({0}, {"external"}, {"calls"})

SpecTwo == InitTwo /\ [][NextTwo]_vars

-----------------------------------------------------------------------------
(* ConditionalAggregateWebpackPlugin.apply: the watchRun hook *)

\* MarkRun that leaves firstRun as it is
MarkRunForgotten(f) == f

\* firstRun = false
MarkRun(f) == FALSE

\* NewRun of a hook that joins the wait of the first invocation: while that
\* one is asleep a later one sleeps as well
NewRunWaiting ==
    [pc |-> IF Len(runs) = 0 THEN "done" ELSE runs[1].pc,
     wakeAt |-> IF Len(runs) = 0 THEN Undefined ELSE runs[1].wakeAt,
     evals |-> 0, last |-> "none", at |-> Undefined, gap |-> Undefined,
     firstWas |-> IF Len(runs) = 0 THEN "none" ELSE runs[1].pc]

\* an invocation of the hook that has not evaluated anything: last is the
\* result of its latest evaluation, at the time of it, gap the time between
\* its latest two; firstWas is where the first invocation stood when this
\* one was made
NewRun ==
    [pc |-> "done", wakeAt |-> Undefined, evals |-> 0, last |-> "none",
     at |-> Undefined, gap |-> Undefined,
     firstWas |-> IF Len(runs) = 0 THEN "none" ELSE runs[1].pc]

\* RunAfter whose await resolves at once: no suspension between evaluations
RunAfterNoSleep(run, res) ==
    [run EXCEPT !.pc = IF res.ok THEN "done" ELSE "sleeping",
                !.wakeAt = IF res.ok THEN Undefined ELSE clock,
                !.evals = @ + 1,
                !.last = IF res.ok THEN "accepted" ELSE "rejected",
                !.at = clock,
                !.gap = IF run.at = Undefined THEN Undefined ELSE clock - run.at]

\* one iteration of while (true) by the invocation run: the condition
\* returned res, and the invocation breaks or is asleep in the await
RunAfter(run, res) ==
    [run EXCEPT !.pc = IF res.ok THEN "done" ELSE "sleeping",
                !.wakeAt = IF res.ok THEN Undefined
                           ELSE clock + recheckInterval,
                !.evals = @ + 1,
                !.last = IF res.ok THEN "accepted" ELSE "rejected",
                !.at = clock,
                !.gap = IF run.at = Undefined THEN Undefined ELSE clock - run.at]

\* the printer of apply() after one iteration of the loop
ApplyPrinterAfter(res) ==
    IF res.ok THEN Reset(applyPrinter)
    ELSE OnFalse(applyPrinter, res.why, clock)

\* compiler.hooks.watchRun fires: the async handler runs up to its first await
WatchRun ==
    /\ Len(runs) < MaxRuns
    /\ IF firstRun
       THEN /\ firstRun' = MarkRun(firstRun)
            /\ \E res \in Condition(cond, {}, {}) :
                 /\ runs' = Append(runs, RunAfter(NewRun, res))
                 /\ applyPrinter' = ApplyPrinterAfter(res)
       ELSE /\ runs' = Append(runs, NewRun)
            /\ UNCHANGED <<firstRun, applyPrinter>>
    /\ UNCHANGED <<clock, ticks, recheckInterval, regVars, cond, watchVars, driverVars>>

\* the setTimeout of invocation i resolves: the loop goes round again
Resume(i) ==
    /\ i \in 1 .. Len(runs)
    /\ runs[i].pc = "sleeping"
    /\ clock >= runs[i].wakeAt
    /\ \E res \in Condition(cond, {}, {}) :
         /\ runs' = [runs EXCEPT ![i] = RunAfter(runs[i], res)]
         /\ applyPrinter' = ApplyPrinterAfter(res)
    /\ UNCHANGED <<clock, ticks, recheckInterval, regVars, cond, firstRun, watchVars,
                   driverVars>>

NextStartup ==
    \/ WatchRun
    \/ \E i \in 1 .. MaxRuns : Resume(i)
    \/ Tick(WatchSteps, MaxWaits)

InitStartup == InitWith(RecheckOptions, Conditions, {"calls"})

SpecStartup == InitStartup /\ [][NextStartup]_vars

-----------------------------------------------------------------------------
(* A FalseConditionPrinter under any sequence of calls *)

\* messages the printer logged between two of its states
Logged(before, after) == Len(after.emitted) - Len(before.emitted)

\* the driver calls printer.onFalse(why); the call is the first of a streak
\* when no call or a reset() came before it
CallOnFalse(why) ==
    /\ mode = "calls"
    /\ printer' = OnFalse(printer, why, clock)
    /\ call' = [op |-> "onFalse", why |-> why,
                first |-> call.op \in {"none", "reset"},
                before |-> printer.printedAt, at |-> clock,
                logged |-> Logged(printer, printer')]
    /\ UNCHANGED <<clock, ticks, recheckInterval, regVars, cond, heap, changes,
                   removals, timeout, timers, notifs, cb, cbCount, held, notified, ev,
                   applyVars, mode>>

\* the driver calls printer.reset()
CallReset ==
    /\ mode = "calls"
    /\ printer' = Reset(printer)
    /\ call' = [op |-> "reset", why |-> << >>, first |-> FALSE,
                before |-> printer.printedAt, at |-> clock,
                logged |-> Logged(printer, printer')]
    /\ UNCHANGED <<clock, ticks, recheckInterval, regVars, cond, heap, changes,
                   removals, timeout, timers, notifs, cb, cbCount, held, notified, ev,
                   applyVars, mode>>

\* a rejection with a reason, and 1 ms until the next, for StreamLength ms
Stream ==
    /\ mode = "stream"
    /\ clock <= StartClock + StreamLength
    /\ printer' = OnFalse(printer, <<"git", "rebase">>, clock)
    /\ call' = [op |-> "onFalse", why |-> <<"git", "rebase">>,
                first |-> call.op \in {"none", "reset"},
                before |-> printer.printedAt, at |-> clock,
                logged |-> Logged(printer, printer')]
    /\ clock' = clock + 1
    /\ UNCHANGED <<ticks, recheckInterval, regVars, cond, heap, changes, removals,
                   timeout, timers, notifs, cb, cbCount, held, notified, ev,
                   applyVars, mode>>

PrinterSteps == {1, FALSE_CONDITION_PRINT_INTERVAL - 1,
                 FALSE_CONDITION_PRINT_INTERVAL,
                 FALSE_CONDITION_PRINT_INTERVAL + 1}

TickCalls == mode = "calls" /\ Tick(PrinterSteps, MaxWaits)

NextPrinter ==
    \/ \E why \in Whys : CallOnFalse(why)
    \/ CallReset
    \/ TickCalls
    \/ Stream

\* the driver starts at StartClock or, as under a test's fake clock, at the
\* epoch, where Date.now() is 0
InitPrinter ==
    \E start \in {0, StartClock} :
      InitAt(start, {0}, {"external"}, {"calls", "stream"})

SpecPrinter == InitPrinter /\ [][NextPrinter]_vars

-----------------------------------------------------------------------------
(* Properties of a watch registration, checked under SpecWatch *)

\* C1 (accumulation): the callback call of an Accepted decision passes, as
\* changed set, the union of the changedFiles of all non-error notifications
\* of the cycle and, as removed set, the union of their removedFiles; the two
\* unions are taken independently of each other.
C1_Accumulation ==
    ev.res = "accepted" =>
        /\ cb.kind = "data"
        /\ cb.changes = notified.changed
        /\ cb.removals = notified.removed

\* two notifications, the first rejected, deliver overlapping unions in the
\* first call of the callback: "a" is in the changed and in the removed set
C1_Witness ==
    /\ ev.res = "accepted"
    /\ cbCount = 1
    /\ cb.ts = 2
    /\ cb.changes = {"a", "b"}
    /\ cb.removals = {"a"}

\* C2: the downstream callback is called only by an event whose gate decision
\* is Accepted or whose notification carries an error; an event whose decision
\* is Rejected calls nothing, and what the callback gets as err is the
\* notification's err, never a reason.
C2_CallbackOnlyOnAcceptOrError ==
    /\ ev.calls > 0 => (ev.res = "accepted" \/ ev.err # NoErr)
    /\ ev.res = "rejected" => ev.calls = 0
    /\ cb.err \in Errs
    /\ cb.kind = "data" => cb.err = NoErr

\* two notifications and a retry, all rejected, and no call so far
C2_Witness ==
    /\ ev.op = "fire"
    /\ ev.res = "rejected"
    /\ notifs = 2
    /\ cbCount = 0

\* C3: an Accepted decision calls the callback exactly once and leaves the
\* accumulated Sets empty, no timer pending and the printer's window start
\* cleared; a snapshot holds only ids notified in its own cycle.  With the
\* condition changes.size >= 2, an event without error is accepted exactly
\* when the cycle has reported two ids.
C3_AcceptedResets ==
    /\ ev.res = "accepted" =>
           /\ ev.calls = 1
           /\ cb.kind = "data"
           /\ heap[changes] = {}
           /\ heap[removals] = {}
           /\ timers = {}
           /\ timeout = NoTimer
           /\ printer.printedAt = Undefined
           /\ cb.changes \subseteq notified.changed
           /\ cb.removals \subseteq notified.removed
    /\ (cond = "atLeast2" /\ ev.op # "none" /\ ev.err = NoErr) =>
           (ev.res = "accepted" <=> Cardinality(notified.changed) >= 2)

\* changes.size >= 2: the second notification brings the one call, with both
\* ids and nothing removed
C3_Witness ==
    /\ cond = "atLeast2"
    /\ notifs = 2
    /\ cbCount = 1
    /\ ev.res = "accepted"
    /\ cb.changes = {"a", "b"}
    /\ cb.removals = {}

\* C4 (snapshot isolation): the Sets of a snapshot the consumer retains keep
\* the contents they had when they were delivered, and are not the Sets the
\* watch accumulates into.
C4_SnapshotIsolation ==
    held.changes # NoRef =>
        /\ heap[held.changes] = held.wasChanges
        /\ heap[held.removals] = held.wasRemovals
        /\ {changes, removals} \cap {held.changes, held.removals} = {}

\* the snapshot {"a"} is still retained, intact, after a later notification
\* of "b" and its acceptance
C4_Witness ==
    /\ cbCount = 2
    /\ cb.kind = "data"
    /\ cb.changes = {"b"}
    /\ held.changes # NoRef
    /\ held.wasChanges = {"a"}
    /\ heap[held.changes] = {"a"}

\* C5 (single pending timer): at most one timer is pending in the runtime; it
\* is the one timeout refers to and it belongs to the latest notification, so
\* a timer cancelled by a later notification never fires.
C5_SinglePendingTimer ==
    /\ Cardinality(timers) <= 1
    /\ timers = IF timeout = NoTimer THEN {} ELSE {timeout}
    /\ \A t \in timers : t.ts = notifs /\ t.err = NoErr

\* a second notification arrived while the retry of the first was pending and
\* was rejected too: one timer
C5_Witness ==
    /\ notifs = 2
    /\ cbCount = 0
    /\ ev.op = "notify"
    /\ ev.res = "rejected"
    /\ Cardinality(timers) = 1

\* C6 (error short-circuit): a notification with an error calls the callback
\* once, in its own handler, with that error as only argument, and does not
\* evaluate the condition.
C6_ErrorShortCircuit ==
    ev.err # NoErr =>
        /\ ev.op = "notify"
        /\ ev.res = "none"
        /\ ev.calls = 1
        /\ cb = ErrorArgs(ev.err)

\* the error arrives after a rejected notification: ids are accumulated and
\* the retry was pending
C6_Witness ==
    /\ ev.err = "ENOSPC"
    /\ notifs = 2
    /\ cbCount = 1
    /\ heap[changes] # {}
    /\ timers = {}

-----------------------------------------------------------------------------
(* Properties of FalseConditionPrinter, checked under SpecPrinter *)

\* C7 (throttled reporting): whatever the spacing of the onFalse calls, two
\* messages of one printer are at least FALSE_CONDITION_PRINT_INTERVAL ms
\* apart; rejections with a reason every 1 ms for StreamLength ms log at most
\* 3 messages.
C7_Throttled ==
    /\ \A i, j \in 1 .. Len(printer.emitted) :
           i < j => printer.emitted[j].at - printer.emitted[i].at
                        >= FALSE_CONDITION_PRINT_INTERVAL
    /\ mode = "stream" => Len(printer.emitted) <= 3

\* the 1 ms stream has run for its StreamLength ms and logged two messages
C7_Witness ==
    /\ mode = "stream"
    /\ clock - StartClock > StreamLength
    /\ Len(printer.emitted) = 2

\* C8: the first onFalse call of a streak (the first call ever, or the first
\* after reset()) logs nothing, whatever its reason; it records the window
\* start.
C8_FirstCallSilent ==
    (call.op = "onFalse" /\ call.first) =>
        /\ call.logged = 0
        /\ printer.printedAt # Undefined

\* a first call with a reason, after a reset() that followed a logged message
C8_Witness ==
    /\ call.op = "onFalse"
    /\ call.first
    /\ call.why # << >>
    /\ Len(printer.emitted) = 1
    /\ printer.printedAt > printer.emitted[1].at

\* C9 (empty-reason suppression): an onFalse call with an empty reason list
\* logs nothing, however long ago the window started.
C9_EmptyReasonSilent ==
    (call.op = "onFalse" /\ call.why = << >>) => call.logged = 0

\* an empty-reason call more than the interval after the window start: the
\* window restarted and nothing was logged
C9_Witness ==
    /\ call.op = "onFalse"
    /\ call.why = << >>
    /\ call.before # Undefined
    /\ printer.printedAt - call.before > FALSE_CONDITION_PRINT_INTERVAL
    /\ printer.emitted = << >>

-----------------------------------------------------------------------------
(* Properties of the watchRun hook, checked under SpecStartup *)

\* C10 (startup barrier runs once): only the first invocation of the watchRun
\* hook enters the loop; every later one evaluates the condition zero times
\* and is done at once.
C10_BarrierOnce ==
    \A i \in 2 .. Len(runs) : runs[i].evals = 0 /\ runs[i].pc = "done"

\* three invocations; the first went round the loop twice
C10_Witness ==
    /\ Len(runs) = 3
    /\ runs[1].evals >= 2

\* C11 (startup barrier blocks until acceptance): the first invocation of the
\* watchRun hook is done only after an evaluation that returned Accepted, and
\* then the printer of apply() is reset; while it is not done its latest
\* evaluation was Rejected and reported to the printer, and two evaluations
\* of it are at least recheckInterval ms apart.
C11_BarrierBlocks ==
    Len(runs) >= 1 =>
        /\ runs[1].evals >= 1
        /\ runs[1].pc = "done" =>
               /\ runs[1].last = "accepted"
               /\ applyPrinter.printedAt = Undefined
        /\ runs[1].pc = "sleeping" =>
               /\ runs[1].last = "rejected"
               /\ applyPrinter.printedAt # Undefined
        /\ runs[1].gap # Undefined => runs[1].gap >= recheckInterval

\* the first invocation is done after two rejections and an acceptance, and
\* a reason was logged while it waited
C11_Witness ==
    /\ Len(runs) >= 1
    /\ runs[1].pc = "done"
    /\ runs[1].evals = 3
    /\ Len(applyPrinter.emitted) = 1

\* C12 (condition is called not more often than recheckInterval): a step
\* that calls this.condition, by a notification or by a timer, comes at
\* least recheckInterval ms after the latest call of it before.
C12_ConditionThrottled ==
    [][(/\ ev'.res # "none"
        /\ notifs' # notifs \/ timers' # timers
        /\ ev.at # Undefined)
       => clock' - ev.at >= recheckInterval]_vars

\* C13 (poll until ready): once a notification without error was rejected
\* and the condition has started to accept for good, the callback is
\* eventually called with the accumulated sets, even if no notification
\* comes any more, provided time passes and due timers fire.
C13_PollUntilReady ==
    (cond = "open" /\ ev.res = "rejected")
        ~> (ev.res = "accepted" /\ cb.kind = "data" /\ cbCount >= 1)

\* the only notification was rejected, and the retry that a timer made after
\* the condition opened called the callback
C13_Witness ==
    /\ cond = "open"
    /\ notifs = 1
    /\ ev.op = "fire"
    /\ ev.res = "accepted"
    /\ cbCount = 1

\* C14 (state effect of an error notification): the handling of a
\* notification with an error leaves the accumulated sets as they were (the
\* same Sets with the same contents, its own ids not merged), clears the
\* start of the printer's window, cancels the pending timer and sets no
\* new one.
C14_ErrorEffect ==
    [][(notifs' = notifs + 1 /\ ev'.err # NoErr)
       => /\ changes' = changes
          /\ removals' = removals
          /\ heap'[changes'] = heap[changes]
          /\ heap'[removals'] = heap[removals]
          /\ printer'.printedAt = Undefined
          /\ timers' = {}
          /\ timeout' = NoTimer]_vars

\* an error that reported an id just came after a rejected notification that
\* had accumulated another id: the timer and the window are gone, the sets
\* hold the first id alone
C14_Witness ==
    /\ ev.err = "EIO"
    /\ notifs = 2
    /\ notified.changed = {"a"}
    /\ heap[changes] = {"a"}
    /\ heap[removals] = {}
    /\ printer.printedAt = Undefined
    /\ timers = {}
    /\ timeout = NoTimer

\* C15 (accumulated sets as a function of history): at every state the
\* accumulated change set is the union of the changedFiles, and the
\* accumulated removal set the union of the removedFiles, of the
\* notifications without error since the last Accepted decision (or since
\* the registration); a notification with an error in between resets nothing.
C15_SetsFollowHistory ==
    /\ heap[changes] = (IF notified.closed THEN {} ELSE notified.changed)
    /\ heap[removals] = (IF notified.closed THEN {} ELSE notified.removed)

\* a rejected notification reported "b" as changed and "a" as removed, and
\* an error came next: both sets still hold what the first one reported
C15_Witness ==
    /\ ev.err = "ENOSPC"
    /\ notifs = 2
    /\ ~notified.closed
    /\ heap[changes] = {"b"}
    /\ heap[removals] = {"a"}

\* C16 (onFalse against its reference): for every clock value and printer
\* state, a call of onFalse(why) takes the current time as start of the
\* window if none is tracked; then, if the current time minus that start is
\* greater than FALSE_CONDITION_PRINT_INTERVAL, it restarts the window at the
\* current time and logs one message, why joined, if and only if why is not
\* empty; otherwise it logs nothing.
C16_OnFalseReference ==
    call.op = "onFalse" =>
        LET start == IF call.before = Undefined THEN call.at ELSE call.before
            passed == call.at - start > FALSE_CONDITION_PRINT_INTERVAL
        IN  /\ printer.printedAt = (IF passed THEN call.at ELSE start)
            /\ call.logged = (IF passed /\ Len(call.why) > 0 THEN 1 ELSE 0)
            /\ call.logged = 1 =>
                   printer.emitted[Len(printer.emitted)]
                       = [at |-> call.at, msg |-> Join(call.why)]

\* C17 (timer pending iff last decision Rejected): between the events of a
\* watch registration a timer is pending, and the timeout handle set, exactly
\* when the latest handled event (notification or timer firing) ended with a
\* rejected evaluation; so after an error, which does not evaluate, no timer
\* is pending, whatever is accumulated, and nothing but a notification can
\* make the condition be called.
C17_TimerIffRejected ==
    /\ (timers # {}) <=> (ev.res = "rejected")
    /\ (timeout # NoTimer) <=> (ev.res = "rejected")
    /\ ev.err # NoErr => (ev.res = "none" /\ timers = {})

\* an error came while ids of a rejected notification were accumulated: the
\* sets are not empty and nothing is pending
C17_Witness ==
    /\ ev.op = "notify"
    /\ ev.err # NoErr
    /\ ev.res = "none"
    /\ ev.at # Undefined
    /\ heap[changes] \cup heap[removals] = {"a", "b"}
    /\ timers = {}
    /\ timeout = NoTimer

\* C18 (timestamps of a deferred acceptance): when the condition accepts in
\* a run made by a timer, the callback gets the timestamps of the latest
\* notification without error, not those of an earlier notification whose
\* timer was cleared.
C18_LatestTimestamps ==
    (ev.op = "fire" /\ ev.res = "accepted") =>
        /\ cb.kind = "data"
        /\ cb.err = NoErr
        /\ cb.ts = notified.last

\* two rejected notifications, the second clearing the timer of the first;
\* the retry accepts and delivers the timestamps of the second
C18_Witness ==
    /\ ev.op = "fire"
    /\ ev.res = "accepted"
    /\ notifs = 2
    /\ cbCount = 1
    /\ cb.ts = 2

\* C19 (a second watchRun during the startup wait): an invocation of the
\* hook made while the first one is asleep between two rejected evaluations
\* is done at once: it has not called the condition and does not wait for
\* the first one.
C19_SecondRunPasses ==
    \A i \in 2 .. Len(runs) :
        runs[i].firstWas = "sleeping" =>
            /\ runs[i].pc = "done"
            /\ runs[i].evals = 0
            /\ runs[i].wakeAt = Undefined

\* the second invocation is done while the first is still asleep after a
\* rejection
C19_Witness ==
    /\ Len(runs) >= 2
    /\ runs[2].firstWas = "sleeping"
    /\ runs[2].pc = "done"
    /\ runs[1].pc = "sleeping"
    /\ runs[1].last = "rejected"

\* C20 (registrations are isolated): each registration has its own
\* accumulated sets, timer and printer: a step changes the sets, the timeout
\* handle, the pending timers and the printer of no registration but the one
\* whose event it handles, and never the printer of apply().
C20_Isolation ==
    [][/\ applyPrinter' = applyPrinter
       /\ \A r \in Regs : (r # self \/ self' # self) => View(r)' = View(r)]_vars

\* registration 2 just had a notification accepted, which emptied its sets
\* and reset its printer, while registration 1 still holds an id, a pending
\* timer and an open printer window
C20_Witness ==
    /\ self = 2
    /\ ev.op = "notify"
    /\ ev.res = "accepted"
    /\ View(2).pending = {}
    /\ View(2).printer.printedAt = Undefined
    /\ View(1).changes = {"a"}
    /\ Cardinality(View(1).pending) = 1
    /\ View(1).printer.printedAt # Undefined

=============================================================================
